---- MODULE Spec2Model ----
(***************************************************************************)
(* Model of genetic-trait-detector.py: the marker catalog (RSIDS), the     *)
(* genotype format normalizer (Rsid.allele_match_set), the marker test     *)
(* (Rsid.detect) and the scan loop (scan_genes).                           *)
(*                                                                         *)
(* Python strings are TLA+ strings; Len, \o and SubSeq act on them.  A     *)
(* Python call that can raise returns a record [exc, val]: exc is "None"   *)
(* when the call returned val, and the exception's name otherwise.         *)
(***************************************************************************)
EXTENDS Integers, Sequences, FiniteSets, TLC

VARIABLES
    RSIDS,      \* the module-level catalog, a sequence of Rsid objects
    rsid_dict,  \* scan_genes' argument: identifier -> record line
    pc,         \* position of the running call
    idx,        \* scan_genes: position of the for loop in RSIDS
    detected,   \* scan_genes: the list built so far
    self,       \* allele_match_set / detect: the receiver
    line,       \* detect: the record line
    ret         \* what the finished call returned or raised

vars == <<RSIDS, rsid_dict, pc, idx, detected, self, line, ret>>

(***************************************************************************)
(* Bounds of the model.                                                    *)
(***************************************************************************)
\* longest genotype token enumerated character by character
MaxLen == 4
\* most genotypes in one definition's alleles tuple
MaxAlleles == 2
\* longest catalog enumerated from the definition pool
MaxCatalog == 2
\* most keys of an enumerated record mapping
MaxKeys == 2

(***************************************************************************)
(* Python values and str methods.                                          *)
(***************************************************************************)
Ok(v) == [exc |-> "None", val |-> v]
Raise(e) == [exc |-> e, val |-> <<>>]

\* a str argument and a tuple argument, told apart as isinstance does
PyStr(s) == [str |-> s]
PyTuple(t) == [tuple |-> t]
isinstance(x, type) == type \in DOMAIN x

Char(s, i) == SubSeq(s, i, i)

\* Python: sub in s
In(sub, s) ==
    \E i \in 0..(Len(s) - Len(sub)) : SubSeq(s, i + 1, i + Len(sub)) = sub

Lowercase == "abcdefghijklmnopqrstuvwxyz"
Uppercase == "ABCDEFGHIJKLMNOPQRSTUVWXYZ"

upperChar(c) ==
    IF \E k \in 1..Len(Lowercase) : Char(Lowercase, k) = c
    THEN Char(Uppercase, CHOOSE k \in 1..Len(Lowercase) : Char(Lowercase, k) = c)
    ELSE c

RECURSIVE upper(_)
\* Python: s.upper()
upper(s) ==
    IF Len(s) = 0 THEN "" ELSE upperChar(Char(s, 1)) \o upper(SubSeq(s, 2, Len(s)))

RECURSIVE split(_, _)
\* Python: s.split(sep) for a one-character sep: the list of the pieces
\* between the separators, empty pieces kept
split(s, sep) ==
    IF ~In(sep, s) THEN <<s>>
    ELSE LET k == CHOOSE i \in 1..Len(s) :
                      /\ Char(s, i) = sep
                      /\ \A j \in 1..(i - 1) : Char(s, j) # sep
         IN  <<SubSeq(s, 1, k - 1)>> \o split(SubSeq(s, k + 1, Len(s)), sep)

(***************************************************************************)
(* class Rsid                                                              *)
(***************************************************************************)
\* Rsid.__init__ (the description is used by info() only and is left out)
Rsid(rsid, alleles, association) ==
    [rsid |-> rsid,
     alleles |-> IF isinstance(alleles, "tuple") THEN alleles.tuple ELSE <<alleles.str>>,
     association |-> association]

\* _format_allele without the upper() of the two alleles
_format_allele_noupper(allele) ==
    IF In(";", allele)
    THEN LET parts == split(allele, ";")
         IN  IF Len(parts) # 2
             THEN Raise("ValueError")
             ELSE Ok(<<"(" \o parts[1] \o ";" \o parts[2] \o ")",
                       parts[1] \o parts[2],
                       parts[1] \o "/" \o parts[2],
                       parts[1] \o "\t" \o parts[2]>>)
    ELSE Ok(<<"(" \o upper(allele) \o ";" \o upper(allele) \o ")">>)

\* _format_allele returning a single token bare, not as a homozygous pair
_format_allele_single(allele) ==
    IF In(";", allele)
    THEN LET parts == split(upper(allele), ";")
         IN  IF Len(parts) # 2
             THEN Raise("ValueError")
             ELSE Ok(<<"(" \o parts[1] \o ";" \o parts[2] \o ")",
                       parts[1] \o parts[2],
                       parts[1] \o "/" \o parts[2],
                       parts[1] \o "\t" \o parts[2]>>)
    ELSE Ok(<<upper(allele)>>)

\* _format_allele without the tab-separated format
_format_allele_notab(allele) ==
    IF In(";", allele)
    THEN LET parts == split(upper(allele), ";")
         IN  IF Len(parts) # 2
             THEN Raise("ValueError")
             ELSE Ok(<<"(" \o parts[1] \o ";" \o parts[2] \o ")",
                       parts[1] \o parts[2],
                       parts[1] \o "/" \o parts[2]>>)
    ELSE Ok(<<"(" \o upper(allele) \o ";" \o upper(allele) \o ")">>)

\* _format_allele that also generates the formats of the reversed alleles
_format_allele_unordered(allele) ==
    IF In(";", allele)
    THEN LET parts == split(upper(allele), ";")
         IN  IF Len(parts) # 2
             THEN Raise("ValueError")
             ELSE Ok(<<"(" \o parts[1] \o ";" \o parts[2] \o ")",
                       parts[1] \o parts[2],
                       parts[1] \o "/" \o parts[2],
                       parts[1] \o "\t" \o parts[2],
                       "(" \o parts[2] \o ";" \o parts[1] \o ")",
                       parts[2] \o parts[1],
                       parts[2] \o "/" \o parts[1],
                       parts[2] \o "\t" \o parts[1]>>)
    ELSE Ok(<<"(" \o upper(allele) \o ";" \o upper(allele) \o ")">>)

\* _format_allele that rejects a genotype with an empty allele: no format
_format_allele_reject(allele) ==
    IF In(";", allele)
    THEN LET parts == split(upper(allele), ";")
         IN  IF Len(parts) # 2
             THEN Raise("ValueError")
             ELSE IF parts[1] = "" \/ parts[2] = ""
             THEN Ok(<<>>)
             ELSE Ok(<<"(" \o parts[1] \o ";" \o parts[2] \o ")",
                       parts[1] \o parts[2],
                       parts[1] \o "/" \o parts[2],
                       parts[1] \o "\t" \o parts[2]>>)
    ELSE Ok(<<"(" \o upper(allele) \o ";" \o upper(allele) \o ")">>)

\* the nested _format_allele of allele_match_set
_format_allele(allele) ==
    IF In(";", allele)
    THEN LET parts == split(upper(allele), ";")
         IN  IF Len(parts) # 2
             THEN Raise("ValueError")   \* a0, a1 = ... unpacks exactly two
             ELSE LET a0 == parts[1]
                      a1 == parts[2]
                  IN  Ok(<<"(" \o a0 \o ";" \o a1 \o ")",
                           a0 \o a1,
                           a0 \o "/" \o a1,
                           a0 \o "\t" \o a1>>)
    ELSE Ok(<<"(" \o upper(allele) \o ";" \o upper(allele) \o ")">>)

RECURSIVE flatten(_)
\* tuple(format for allele in alleles for format in _format_allele(allele))
flatten(alleles) ==
    IF alleles = <<>> THEN Ok(<<>>)
    ELSE LET first == _format_allele(Head(alleles))
         IN  IF first.exc # "None" THEN first
             ELSE LET rest == flatten(Tail(alleles))
                  IN  IF rest.exc # "None" THEN rest
                      ELSE Ok(first.val \o rest.val)

\* Rsid.allele_match_set
allele_match_set(obj) == flatten(obj.alleles)

RECURSIVE lastIn(_, _)
\* a loop that keeps going after a match: the last format that is in the line
lastIn(formats, ln) ==
    IF formats = <<>> THEN <<FALSE, "">>
    ELSE LET rest == lastIn(Tail(formats), ln)
         IN  IF rest[1] THEN rest
             ELSE IF In(Head(formats), ln) THEN <<TRUE, Head(formats)>>
             ELSE <<FALSE, "">>

RECURSIVE firstIn(_, _)
\* the for loop of detect: the first format that is in the line
firstIn(formats, ln) ==
    IF formats = <<>> THEN <<FALSE, "">>
    ELSE IF In(Head(formats), ln) THEN <<TRUE, Head(formats)>>
    ELSE firstIn(Tail(formats), ln)

\* detect without the test of the identifier
detect_noidcheck(obj, ln) ==
    LET set == allele_match_set(obj)
    IN  IF set.exc # "None" THEN set ELSE Ok(firstIn(set.val, ln))

\* detect that takes the identifier's presence for a match
detect_idonly(obj, ln) ==
    IF ~In(obj.rsid, ln) THEN Ok(<<FALSE, "">>)
    ELSE LET set == allele_match_set(obj)
         IN  IF set.exc # "None" THEN set
             ELSE IF set.val = <<>> THEN Ok(<<FALSE, "">>)
             ELSE LET found == firstIn(set.val, ln)
                  IN  Ok(IF found[1] THEN found ELSE <<TRUE, set.val[1]>>)

\* Rsid.detect
detect(obj, ln) ==
    IF ~In(obj.rsid, ln) THEN Ok(<<FALSE, "">>)
    ELSE LET set == allele_match_set(obj)
         IN  IF set.exc # "None" THEN set
             ELSE Ok(firstIn(set.val, ln))

(***************************************************************************)
(* class Trait and the catalog                                             *)
(***************************************************************************)
Trait ==
    [alzheimers |-> "Alzheimer's Disease",
     autism |-> "Autism",
     bipolar |-> "Bipolar Disorder",
     immunity |-> "Immunity",
     intelligence |-> "Intelligence",
     longevity |-> "Longevity",
     metabolism |-> "Metabolism",
     muscle |-> "Muscular Performance",
     ocd |-> "OCD",
     schizophrenia |-> "Schizophrenia",
     eyes |-> "Eye Characteristics",
     hair |-> "Hair Characteristics",
     anxiety |-> "Anxiety",
     depression |-> "Depression",
     addiction |-> "Addiction Risk"]

\* the literal list: <<identifier, genotype, trait>> in source order
_RSIDS == <<
    <<"rs1006737", "A;A", Trait.bipolar>>,  \* line 116
    <<"rs4027132", "A;A", Trait.bipolar>>,  \* line 117
    <<"rs7570682", "A;A", Trait.bipolar>>,  \* line 118
    <<"rs1375144", "C;C", Trait.bipolar>>,  \* line 119
    <<"rs683395", "C;T", Trait.bipolar>>,  \* line 120
    <<"rs2609653", "C;T", Trait.bipolar>>,  \* line 121
    <<"rs10982256", "C;C", Trait.bipolar>>,  \* line 122
    <<"rs11622475", "C;C", Trait.bipolar>>,  \* line 123
    <<"rs1344484", "T;T", Trait.bipolar>>,  \* line 124
    <<"rs2953145", "C;G", Trait.bipolar>>,  \* line 125
    <<"rs420259", "T;T", Trait.bipolar>>,  \* line 126
    <<"rs4276227", "C;C", Trait.bipolar>>,  \* line 127
    <<"rs4027132", "A;G", Trait.bipolar>>,  \* line 128
    <<"rs2609653", "C;C", Trait.bipolar>>,  \* line 129
    <<"rs2953145", "G;G", Trait.bipolar>>,  \* line 130
    <<"rs6448030", "G;G", Trait.bipolar>>,  \* line 131
    <<"rs10033237", "A;A", Trait.bipolar>>,  \* line 132
    <<"rs429358", "C;C", Trait.alzheimers>>,  \* line 135
    <<"rs145999145", "A;A", Trait.alzheimers>>,  \* line 136
    <<"rs908832", "A;A", Trait.alzheimers>>,  \* line 137
    <<"rs63750847", "A;A", Trait.alzheimers>>,  \* line 138
    <<"rs429358", "C;T", Trait.alzheimers>>,  \* line 139
    <<"rs145999145", "A;G", Trait.alzheimers>>,  \* line 140
    <<"rs63750847", "A;G", Trait.alzheimers>>,  \* line 141
    <<"rs7412", "C;C", Trait.alzheimers>>,  \* line 142
    <<"rs4420638", "G;G", Trait.alzheimers>>,  \* line 143
    <<"rs1858830", "C;C", Trait.autism>>,  \* line 146
    <<"rs2710102", "C;C", Trait.autism>>,  \* line 147
    <<"rs7794745", "A;T", Trait.autism>>,  \* line 148
    <<"rs1322784", "C;C", Trait.autism>>,  \* line 149
    <<"rs1322784", "C;T", Trait.autism>>,  \* line 150
    <<"rs1322784", "T;T", Trait.autism>>,  \* line 151
    <<"rs265981", "A;G", Trait.autism>>,  \* line 152
    <<"rs4532", "C;T", Trait.autism>>,  \* line 153
    <<"rs686", "A;G", Trait.autism>>,  \* line 154
    <<"rs1143674", "A;A", Trait.autism>>,  \* line 155
    <<"rs6807362", "C;C", Trait.autism>>,  \* line 156
    <<"rs757972971", "A;A", Trait.autism>>,  \* line 157
    <<"rs2217262", "A;A", Trait.autism>>,  \* line 158
    <<"rs6766410", "A;A", Trait.autism>>,  \* line 159
    <<"rs6766410", "A;C", Trait.autism>>,  \* line 160
    <<"rs6766410", "C;C", Trait.autism>>,  \* line 161
    <<"rs1445442", "A;A", Trait.autism>>,  \* line 162
    <<"rs1445442", "A;G", Trait.autism>>,  \* line 163
    <<"rs1445442", "G;G", Trait.autism>>,  \* line 164
    <<"rs2421826", "C;T", Trait.autism>>,  \* line 165
    <<"rs2421826", "T;T", Trait.autism>>,  \* line 166
    <<"rs2421826", "C;C", Trait.autism>>,  \* line 167
    <<"rs1358054", "G;G", Trait.autism>>,  \* line 168
    <<"rs1358054", "G;T", Trait.autism>>,  \* line 169
    <<"rs1358054", "T;T", Trait.autism>>,  \* line 170
    <<"rs536861", "A;A", Trait.autism>>,  \* line 171
    <<"rs536861", "A;C", Trait.autism>>,  \* line 172
    <<"rs536861", "C;C", Trait.autism>>,  \* line 173
    <<"rs722628", "A;A", Trait.autism>>,  \* line 174
    <<"rs722628", "A;G", Trait.autism>>,  \* line 175
    <<"rs722628", "G;G", Trait.autism>>,  \* line 176
    <<"rs1858830", "C;G", Trait.autism>>,  \* line 177
    <<"rs2710102", "G;G", Trait.autism>>,  \* line 178
    <<"rs7794745", "T;T", Trait.autism>>,  \* line 179
    <<"rs265981", "G;G", Trait.autism>>,  \* line 180
    <<"rs4532", "T;T", Trait.autism>>,  \* line 181
    <<"rs686", "A;A", Trait.autism>>,  \* line 182
    <<"rs1143674", "A;A", Trait.autism>>,  \* line 183
    <<"rs757972971", "A;A", Trait.autism>>,  \* line 184
    <<"rs10513025", "T;T", Trait.autism>>,  \* line 185
    <<"rs1718101", "C;C", Trait.autism>>,  \* line 186
    <<"rs27388", "A;A", Trait.schizophrenia>>,  \* line 189
    <<"rs2270641", "G;G", Trait.schizophrenia>>,  \* line 190
    <<"rs4129148", "C;C", Trait.schizophrenia>>,  \* line 191
    <<"rs28694718", "A;A", Trait.schizophrenia>>,  \* line 192
    <<"rs6422441", "C;C", Trait.schizophrenia>>,  \* line 193
    <<"rs28414810", "C;C", Trait.schizophrenia>>,  \* line 194
    <<"rs6603272", "G;G", Trait.schizophrenia>>,  \* line 195
    <<"rs17883192", "C;C", Trait.schizophrenia>>,  \* line 196
    <<"rs165599", "G;G", Trait.schizophrenia>>,  \* line 197
    <<"rs27388", "A;G", Trait.schizophrenia>>,  \* line 198
    <<"rs4129148", "C;G", Trait.schizophrenia>>,  \* line 199
    <<"rs28694718", "A;G", Trait.schizophrenia>>,  \* line 200
    <<"rs6422441", "C;T", Trait.schizophrenia>>,  \* line 201
    <<"rs28414810", "C;G", Trait.schizophrenia>>,  \* line 202
    <<"rs6603272", "G;T", Trait.schizophrenia>>,  \* line 203
    <<"rs17883192", "C;G", Trait.schizophrenia>>,  \* line 204
    <<"rs4633", "C;C", Trait.schizophrenia>>,  \* line 205
    <<"rs13192841", "A;A", Trait.schizophrenia>>,  \* line 206
    <<"rs3758391", "C;T", Trait.longevity>>,  \* line 209
    <<"rs5882", "A;A", Trait.longevity>>,  \* line 210
    <<"rs1042522", "C;C", Trait.longevity>>,  \* line 211
    <<"rs3803304", "C;C", Trait.longevity>>,  \* line 212
    <<"rs3803304", "C;G", Trait.longevity>>,  \* line 213
    <<"rs3803304", "G;G", Trait.longevity>>,  \* line 214
    <<"rs6873545", "C;C", Trait.longevity>>,  \* line 215
    <<"rs4590183", "C;C", Trait.longevity>>,  \* line 216
    <<"rs1556516", "C;C", Trait.longevity>>,  \* line 217
    <<"rs1556516", "C;G", Trait.longevity>>,  \* line 218
    <<"rs1556516", "G;G", Trait.longevity>>,  \* line 219
    <<"rs7137828", "C;C", Trait.longevity>>,  \* line 220
    <<"rs7137828", "C;T", Trait.longevity>>,  \* line 221
    <<"rs7137828", "T;T", Trait.longevity>>,  \* line 222
    <<"rs1627804", "C;C", Trait.longevity>>,  \* line 223
    <<"rs1627804", "A;A", Trait.longevity>>,  \* line 224
    <<"rs1627804", "A;C", Trait.longevity>>,  \* line 225
    <<"rs7844965", "A;G", Trait.longevity>>,  \* line 226
    <<"rs7844965", "A;A", Trait.longevity>>,  \* line 227
    <<"rs7844965", "G;G", Trait.longevity>>,  \* line 228
    <<"rs61978928", "C;C", Trait.longevity>>,  \* line 229
    <<"rs61978928", "C;T", Trait.longevity>>,  \* line 230
    <<"rs61978928", "T;T", Trait.longevity>>,  \* line 231
    <<"rs28926173", "C;C", Trait.longevity>>,  \* line 232
    <<"rs28926173", "C;T", Trait.longevity>>,  \* line 233
    <<"rs28926173", "T;T", Trait.longevity>>,  \* line 234
    <<"rs146254978", "C;C", Trait.longevity>>,  \* line 235
    <<"rs146254978", "C;T", Trait.longevity>>,  \* line 236
    <<"rs146254978", "T;T", Trait.longevity>>,  \* line 237
    <<"rs139137459", "A;G", Trait.longevity>>,  \* line 238
    <<"rs139137459", "A;A", Trait.longevity>>,  \* line 239
    <<"rs139137459", "G;G", Trait.longevity>>,  \* line 240
    <<"rs3758391", "T;T", Trait.longevity>>,  \* line 241
    <<"rs5882", "A;G", Trait.longevity>>,  \* line 242
    <<"rs1042522", "C;G", Trait.longevity>>,  \* line 243
    <<"rs2542052", "C;C", Trait.longevity>>,  \* line 244
    <<"rs1042714", "G;G", Trait.longevity>>,  \* line 245
    <<"rs8034191", "C;C", Trait.longevity>>,  \* line 246
    <<"rs2802292", "G;G", Trait.longevity>>,  \* line 247
    <<"rs333", "46373456", Trait.immunity>>,  \* line 250
    <<"rs601338", "A;A", Trait.immunity>>,  \* line 251
    <<"rs1800896", "T;T", Trait.immunity>>,  \* line 252
    <<"rs5743810", "C;C", Trait.immunity>>,  \* line 253
    <<"rs5743810", "C;T", Trait.immunity>>,  \* line 254
    <<"rs5743810", "T;T", Trait.immunity>>,  \* line 255
    <<"rs28379706", "T;T", Trait.intelligence>>,  \* line 258
    <<"rs28379706", "C;T", Trait.intelligence>>,  \* line 259
    <<"rs28379706", "C;C", Trait.intelligence>>,  \* line 260
    <<"rs363039", "A;G", Trait.intelligence>>,  \* line 261
    <<"rs4680", "A;A", Trait.intelligence>>,  \* line 262
    <<"rs4680", "G;G", Trait.intelligence>>,  \* line 263
    <<"rs363039", "C;C", Trait.intelligence>>,  \* line 264
    <<"rs53576", "G;G", Trait.intelligence>>,  \* line 265
    <<"rs2251499", "C;C", Trait.intelligence>>,  \* line 266
    <<"rs10119", "A;A", Trait.intelligence>>,  \* line 267
    <<"rs1815739", "C;C", Trait.muscle>>,  \* line 270
    <<"rs1805086", "C;C", Trait.muscle>>,  \* line 271
    <<"rs1815739", "C;T", Trait.muscle>>,  \* line 272
    <<"rs1805086", "C;T", Trait.muscle>>,  \* line 273
    <<"rs1815739", "T;T", Trait.muscle>>,  \* line 274
    <<"rs1799752", "D;D", Trait.muscle>>,  \* line 275
    <<"rs4253778", "C;C", Trait.muscle>>,  \* line 276
    <<"rs4570625", "G;G", Trait.ocd>>,  \* line 279
    <<"rs4565946", "C;C", Trait.ocd>>,  \* line 280
    <<"rs6313", "A;A", Trait.ocd>>,  \* line 281
    <<"rs301430", "C;C", Trait.ocd>>,  \* line 282
    <<"rs1801131", "A;C", Trait.metabolism>>,  \* line 285
    <<"rs1801131", "C;C", Trait.metabolism>>,  \* line 286
    <<"rs1801133", "C;T", Trait.metabolism>>,  \* line 287
    <<"rs1801133", "T;T", Trait.metabolism>>,  \* line 288
    <<"rs2282679", "A;C", Trait.metabolism>>,  \* line 289
    <<"rs2282679", "C;C", Trait.metabolism>>,  \* line 290
    <<"rs12785878", "G;T", Trait.metabolism>>,  \* line 291
    <<"rs12785878", "T;T", Trait.metabolism>>,  \* line 292
    <<"rs1799945", "F;G", Trait.metabolism>>,  \* line 293
    <<"rs4988235", "C;C", Trait.metabolism>>,  \* line 294
    <<"rs182549", "C;C", Trait.metabolism>>,  \* line 295
    <<"rs2187668", "A;A", Trait.metabolism>>,  \* line 296
    <<"rs2187668", "A;G", Trait.metabolism>>,  \* line 297
    <<"rs5030858", "T;T", Trait.metabolism>>,  \* line 298
    <<"rs72921001", "C;C", Trait.metabolism>>,  \* line 299
    <<"rs7903146", "T;T", Trait.metabolism>>,  \* line 300
    <<"rs7903146", "C;C", Trait.metabolism>>,  \* line 301
    <<"rs7903146", "C;T", Trait.metabolism>>,  \* line 302
    <<"rs662799", "A;G", Trait.metabolism>>,  \* line 303
    <<"rs662799", "G;G", Trait.metabolism>>,  \* line 304
    <<"rs13119723", "A;A", Trait.metabolism>>,  \* line 305
    <<"rs13119723", "A;G", Trait.metabolism>>,  \* line 306
    <<"rs13119723", "G;G", Trait.metabolism>>,  \* line 307
    <<"rs6822844", "G;G", Trait.metabolism>>,  \* line 308
    <<"rs3184504", "C;T", Trait.metabolism>>,  \* line 309
    <<"rs3184504", "T;T", Trait.metabolism>>,  \* line 310
    <<"rs1042713", "G;G", Trait.metabolism>>,  \* line 311
    <<"rs9939609", "A;A", Trait.metabolism>>,  \* line 312
    <<"rs4988235", "T;T", Trait.metabolism>>,  \* line 313
    <<"rs17782313", "C;C", Trait.metabolism>>,  \* line 314
    <<"rs1421085", "C;C", Trait.metabolism>>,  \* line 315
    <<"rs12913832", "A;A", Trait.eyes>>,  \* line 318
    <<"rs12913832", "A;G", Trait.eyes>>,  \* line 319
    <<"rs12913832", "G;G", Trait.eyes>>,  \* line 320
    <<"rs28938473", "T;T", Trait.eyes>>,  \* line 321
    <<"rs61753033", "T;T", Trait.eyes>>,  \* line 322
    <<"rs61753034", "T;T", Trait.eyes>>,  \* line 323
    <<"rs4778241", "A;A", Trait.eyes>>,  \* line 324
    <<"rs4778241", "A;C", Trait.eyes>>,  \* line 325
    <<"rs4778241", "C;C", Trait.eyes>>,  \* line 326
    <<"rs7495174", "A;A", Trait.eyes>>,  \* line 327
    <<"rs1129038", "A;A", Trait.eyes>>,  \* line 328
    <<"rs1129038", "A;G", Trait.eyes>>,  \* line 329
    <<"rs1129038", "G;G", Trait.eyes>>,  \* line 330
    <<"rs916977", "A;A", Trait.eyes>>,  \* line 331
    <<"rs916977", "A;G", Trait.eyes>>,  \* line 332
    <<"rs916977", "G;G", Trait.eyes>>,  \* line 333
    <<"rs1667394", "A;A", Trait.eyes>>,  \* line 334
    <<"rs12203592", "T;T", Trait.eyes>>,  \* line 335
    <<"rs16891982", "C;C", Trait.eyes>>,  \* line 336
    <<"rs1393350", "A;A", Trait.eyes>>,  \* line 337
    <<"rs6152", "A;A", Trait.hair>>,  \* line 340
    <<"rs6152", "A;G", Trait.hair>>,  \* line 341
    <<"rs6152", "A;", Trait.hair>>,  \* line 342
    <<"rs6152", "G;G", Trait.hair>>,  \* line 343
    <<"rs1805009", "C;C", Trait.hair>>,  \* line 344
    <<"rs1805009", "C;G", Trait.hair>>,  \* line 345
    <<"rs1805007", "C;T", Trait.hair>>,  \* line 346
    <<"rs1805007", "T;T", Trait.hair>>,  \* line 347
    <<"rs1805008", "C;T", Trait.hair>>,  \* line 348
    <<"rs1805008", "T;T", Trait.hair>>,  \* line 349
    <<"rs1805006", "A;A", Trait.hair>>,  \* line 350
    <<"rs1805006", "A;C", Trait.hair>>,  \* line 351
    <<"rs11547464", "A;A", Trait.hair>>,  \* line 352
    <<"rs11547464", "A;G", Trait.hair>>,  \* line 353
    <<"rs35264875", "T;T", Trait.hair>>,  \* line 354
    <<"rs7349332", "T;T", Trait.hair>>,  \* line 355
    <<"rs11803731", "T;T", Trait.hair>>,  \* line 356
    <<"rs17646946", "A;A", Trait.hair>>,  \* line 357
    <<"rs1667394", "A;A", Trait.hair>>,  \* line 358
    <<"rs16891982", "G;G", Trait.hair>>,  \* line 359
    <<"rs17822931", "C;C", Trait.hair>>,  \* line 360
    <<"rs17822931", "C;T", Trait.hair>>,  \* line 361
    <<"rs12821256", "C;C", Trait.hair>>,  \* line 362
    <<"rs2378249", "G;G", Trait.hair>>,  \* line 363
    <<"rs6265", "C;C", Trait.depression>>,  \* line 366
    <<"rs25531", "T;T", Trait.depression>>,  \* line 367
    <<"rs1049353", "A;A", Trait.depression>>,  \* line 368
    <<"rs909525", "T;T", Trait.depression>>,  \* line 369
    <<"rs1360780", "T;T", Trait.anxiety>>,  \* line 372
    <<"rs3810366", "G;G", Trait.anxiety>>,  \* line 373
    <<"rs6295", "C;C", Trait.anxiety>>,  \* line 374
    <<"rs6311", "A;A", Trait.anxiety>>,  \* line 375
    <<"rs1800497", "A;A", Trait.addiction>>,  \* line 378
    <<"rs1800497", "A;G", Trait.addiction>>,  \* line 379
    <<"rs1799971", "A;G", Trait.addiction>>,  \* line 380
    <<"rs662", "A;A", Trait.addiction>>,  \* line 381
    <<"rs1229984", "C;C", Trait.addiction>>,  \* line 382
    <<"rs16969968", "A;A", Trait.addiction>>,  \* line 383
    <<"rs2832407", "A;A", Trait.addiction>>,  \* line 384
    <<"rs6277", "G;G", Trait.addiction>>  \* line 385
    >>

\* RSIDS = [Rsid(*x) for x in _RSIDS]
ShippedRSIDS ==
    [i \in 1..Len(_RSIDS) |-> Rsid(_RSIDS[i][1], PyStr(_RSIDS[i][2]), _RSIDS[i][3])]

(***************************************************************************)
(* scan_genes: one action per step of the function.                        *)
(***************************************************************************)
\* detected = []
ScanStart ==
    /\ pc = "scan_genes"
    /\ detected' = <<>>
    /\ idx' = 1
    /\ pc' = "for"
    /\ UNCHANGED <<RSIDS, rsid_dict, self, line, ret>>

\* an iteration whose rsid is not a key of rsid_dict
ScanSkip ==
    /\ pc = "for"
    /\ idx <= Len(RSIDS)
    /\ RSIDS[idx].rsid \notin DOMAIN rsid_dict
    /\ idx' = idx + 1
    /\ UNCHANGED <<RSIDS, rsid_dict, pc, detected, self, line, ret>>

\* the iteration with detected.insert(0, ...) in place of append
ScanDetectPrepend ==
    /\ pc = "for"
    /\ idx <= Len(RSIDS)
    /\ RSIDS[idx].rsid \in DOMAIN rsid_dict
    /\ LET rsid == RSIDS[idx]
           r == detect(rsid, rsid_dict[rsid.rsid])
       IN  IF r.exc # "None"
           THEN /\ pc' = "raised"
                /\ ret' = r
                /\ UNCHANGED <<idx, detected>>
           ELSE /\ detected' = IF r.val[1]
                               THEN <<<<rsid, r.val[2]>>>> \o detected
                               ELSE detected
                /\ idx' = idx + 1
                /\ UNCHANGED <<pc, ret>>
    /\ UNCHANGED <<RSIDS, rsid_dict, self, line>>

\* an iteration that calls rsid.detect(rsid_dict[rsid.rsid])
ScanDetect ==
    /\ pc = "for"
    /\ idx <= Len(RSIDS)
    /\ RSIDS[idx].rsid \in DOMAIN rsid_dict
    /\ LET rsid == RSIDS[idx]
           r == detect(rsid, rsid_dict[rsid.rsid])
       IN  IF r.exc # "None"
           THEN /\ pc' = "raised"
                /\ ret' = r
                /\ UNCHANGED <<idx, detected>>
           ELSE /\ detected' = IF r.val[1]
                               THEN Append(detected, <<rsid, r.val[2]>>)
                               ELSE detected
                /\ idx' = idx + 1
                /\ UNCHANGED <<pc, ret>>
    /\ UNCHANGED <<RSIDS, rsid_dict, self, line>>

\* return detected
ScanReturn ==
    /\ pc = "for"
    /\ idx > Len(RSIDS)
    /\ ret' = Ok(detected)
    /\ pc' = "done"
    /\ UNCHANGED <<RSIDS, rsid_dict, idx, detected, self, line>>

(***************************************************************************)
(* Calls of the two methods of Rsid on their own.                          *)
(***************************************************************************)
\* self.allele_match_set
CallAlleleMatchSet ==
    /\ pc = "allele_match_set"
    /\ ret' = allele_match_set(self)
    /\ pc' = IF ret'.exc = "None" THEN "done" ELSE "raised"
    /\ UNCHANGED <<RSIDS, rsid_dict, idx, detected, self, line>>

\* self.detect(line)
CallDetect ==
    /\ pc = "detect"
    /\ ret' = detect(self, line)
    /\ pc' = IF ret'.exc = "None" THEN "done" ELSE "raised"
    /\ UNCHANGED <<RSIDS, rsid_dict, idx, detected, self, line>>

(***************************************************************************)
(* Inputs.                                                                 *)
(***************************************************************************)
NoRsid == Rsid("", PyTuple(<<>>), "")
NoRet == Ok(<<>>)
NoDict == <<>>

RECURSIVE Strs(_, _)
\* the strings over alphabet of length at most n
Strs(alphabet, n) ==
    IF n = 0 THEN {""}
    ELSE LET shorter == Strs(alphabet, n - 1)
         IN  shorter \cup {s \o c : s \in shorter, c \in alphabet}

RECURSIVE Tuples(_, _)
\* the tuples over S of length at most n
Tuples(S, n) ==
    IF n = 0 THEN {<<>>}
    ELSE LET shorter == Tuples(S, n - 1)
         IN  shorter \cup {Append(t, x) : t \in shorter, x \in S}

\* genotype tokens: letters of both cases, a digit and the separator
TokenAlphabet == {"A", "c", "4", ";"}
ShippedGenotypes == {_RSIDS[i][2] : i \in 1..Len(_RSIDS)}
Tokens == Strs(TokenAlphabet, MaxLen) \cup ShippedGenotypes

\* the alleles arguments of the normalizer runs: every token as a str, and
\* tuples of a few of them
FormatAlleles ==
    {PyStr(g) : g \in Tokens}
        \cup {PyTuple(t) : t \in Tuples({"a;c", "4", "A;"}, MaxAlleles)}

InitFormat ==
    /\ self \in {Rsid("rs6152", a, Trait.hair) : a \in FormatAlleles}
    /\ pc = "allele_match_set"
    /\ RSIDS = <<>>
    /\ rsid_dict = NoDict
    /\ idx = 0
    /\ detected = <<>>
    /\ line = ""
    /\ ret = NoRet

NextFormat == CallAlleleMatchSet

SpecFormat == InitFormat /\ [][NextFormat]_vars

\* a record line: the tab-joined fields identifier, chromosome, position, genotype
Record(id, chrom, pos, genotype) ==
    id \o "\t" \o chrom \o "\t" \o pos \o "\t" \o genotype

\* the four styles a genotype is written in, and two of them side by side
Style(k, x, y) ==
    CASE k = 1 -> "(" \o x \o ";" \o y \o ")"
      [] k = 2 -> x \o y
      [] k = 3 -> x \o "/" \o y
      [] k = 4 -> x \o "\t" \o y

DetectGenotypes == {"C;T", "c;t", "T;C", "C;C", "A;", "46373456"}
DetectIds == {"rs662", "rs662799", "rs1322784"}
DetectTails ==
    {Style(k, x, y) : k \in 1..4, x \in {"C", "T"}, y \in {"C", "T"}}
        \cup {Style(k, "c", "t") : k \in 1..4}
        \cup {Style(k, "C", "T") \o "\t" \o Style(j, "C", "T") : k \in 1..4, j \in 1..4}
        \cup {Style(k, "T", "C") \o "\t" \o Style(j, "T", "C") : k \in 1..4, j \in 1..4}
        \cup {"", "A\tG", "(46373456;46373456)", "46373456", "(A;)"}

DetectSelves ==
    {Rsid(id, PyTuple(t), Trait.autism) :
        id \in DetectIds, t \in Tuples(DetectGenotypes, MaxAlleles)}
DetectLines ==
    {Record(id, "1", "999", tail) : id \in DetectIds \cup {"rs429358"}, tail \in DetectTails}

InitDetect ==
    /\ self \in DetectSelves
    /\ line \in DetectLines
    /\ pc = "detect"
    /\ RSIDS = <<>>
    /\ rsid_dict = NoDict
    /\ idx = 0
    /\ detected = <<>>
    /\ ret = NoRet

NextDetect == CallDetect

SpecDetect == InitDetect /\ [][NextDetect]_vars

\* the identifiers the enumerated catalogs and mappings are about
ScanIds == {"rs1322784", "rs429358", "rs6152"}
\* the definitions of the shipped catalog with these identifiers
ScanPool == {ShippedRSIDS[i] : i \in {j \in 1..Len(_RSIDS) : _RSIDS[j][1] \in ScanIds}}
Catalogs == {ShippedRSIDS} \cup Tuples(ScanPool, MaxCatalog)

Chrom(id) == CASE id = "rs1322784" -> "1" [] id = "rs429358" -> "17" [] OTHER -> "X"
Pos(id) == CASE id = "rs1322784" -> "999" [] id = "rs429358" -> "12345" [] OTHER -> "66765627"
ScanTails(id) ==
    CASE id = "rs1322784" -> {"C\tT", "T\tC"}
      [] id = "rs429358" -> {"C\tC", "(C;C)"}
      [] OTHER -> {"A\tG", "A\tA", "G\tG", "(A;G)"}
\* the lines a key may map to: its own record, or the record of another locus
ScanLines(key) ==
    {Record(key, Chrom(key), Pos(key), tail) : tail \in ScanTails(key)}
        \cup {Record("rs7412", "19", "45412079", "C\tT")}
Mappings ==
    UNION {{f \in [K -> UNION {ScanLines(k) : k \in K}] : \A k \in K : f[k] \in ScanLines(k)} :
              K \in {S \in SUBSET ScanIds : Cardinality(S) <= MaxKeys}}

Init ==
    /\ RSIDS \in Catalogs
    /\ rsid_dict \in Mappings
    /\ pc = "scan_genes"
    /\ idx = 0
    /\ detected = <<>>
    /\ self = NoRsid
    /\ line = ""
    /\ ret = NoRet

Next == ScanStart \/ ScanSkip \/ ScanDetect \/ ScanReturn

Spec == Init /\ [][Next]_vars

(***************************************************************************)
(* Properties of the normalizer (SpecFormat).                              *)
(***************************************************************************)
Returned == pc \in {"done", "raised"}

\* U is s with every lowercase letter replaced by its capital
IsUpperOf(U, s) ==
    /\ Len(U) = Len(s)
    /\ \A i \in 1..Len(s) :
           IF \E k \in 1..26 : Char(s, i) = Char(Lowercase, k)
           THEN \E k \in 1..26 : /\ Char(s, i) = Char(Lowercase, k)
                                 /\ Char(U, i) = Char(Uppercase, k)
           ELSE Char(U, i) = Char(s, i)

SepCount(g) == Cardinality({i \in 1..Len(g) : Char(g, i) = ";"})

\* C3: a genotype with exactly one ';' yields exactly the four formats
\* "(A0;A1)", "A0A1", "A0/A1", "A0<TAB>A1", in this order, of its uppercased
\* alleles (either may be empty), and the call does not raise.
C3_FourFormats ==
    (Returned /\ Len(self.alleles) = 1 /\ SepCount(self.alleles[1]) = 1) =>
        LET g == self.alleles[1]
            k == CHOOSE i \in 1..Len(g) : Char(g, i) = ";"
            a0 == SubSeq(g, 1, k - 1)
            a1 == SubSeq(g, k + 1, Len(g))
        IN  /\ ret.exc = "None"
            /\ Len(ret.val) = 4
            /\ Len(ret.val[2]) = Len(a0) + Len(a1)
            /\ LET A0 == SubSeq(ret.val[2], 1, Len(a0))
                   A1 == SubSeq(ret.val[2], Len(a0) + 1, Len(a0) + Len(a1))
               IN  /\ IsUpperOf(A0, a0)
                   /\ IsUpperOf(A1, a1)
                   /\ ret.val[1] = "(" \o A0 \o ";" \o A1 \o ")"
                   /\ ret.val[2] = A0 \o A1
                   /\ ret.val[3] = A0 \o "/" \o A1
                   /\ ret.val[4] = A0 \o "\t" \o A1

\* the malformed genotype "A;" has been normalized
C3_Witness ==
    /\ pc = "done"
    /\ self.alleles = <<"A;">>
    /\ ret.val = <<"(A;)", "A", "A/", "A\t">>

\* C4: a genotype without ';' yields exactly one format, "(G;G)", of the
\* uppercased token G.
C4_OneFormat ==
    (Returned /\ Len(self.alleles) = 1 /\ SepCount(self.alleles[1]) = 0) =>
        LET g == self.alleles[1]
        IN  /\ ret.exc = "None"
            /\ Len(ret.val) = 1
            /\ Len(ret.val[1]) = 2 * Len(g) + 3
            /\ LET G == SubSeq(ret.val[1], 2, Len(g) + 1)
               IN  /\ IsUpperOf(G, g)
                   /\ ret.val[1] = "(" \o G \o ";" \o G \o ")"

\* the rs333 deletion code has been normalized
C4_Witness ==
    /\ pc = "done"
    /\ self.alleles = <<"46373456">>
    /\ ret.val = <<"(46373456;46373456)">>

\* C9: the normalizer (and with it detect and scan) returns a result for
\* every genotype token of letters, digits and any number of ';', and never
\* raises.
C9_Total == Returned => ret.exc = "None"

(***************************************************************************)
(* Properties of detect (SpecDetect).                                      *)
(***************************************************************************)
\* C2: when the line contains the identifier, detect returns (True, f) for
\* the first format f, in the order of the format set, that is in the line,
\* and (False, "") when no format of the set is in the line.
C2_FirstFormat ==
    (pc = "done" /\ In(self.rsid, line)) =>
        LET fs == allele_match_set(self).val
            hits == {k \in 1..Len(fs) : In(fs[k], line)}
        IN  IF hits = {}
            THEN ret.val = <<FALSE, "">>
            ELSE \E k \in hits : /\ \A j \in hits : k <= j
                                 /\ ret.val = <<TRUE, fs[k]>>

\* detect passed over a format that is absent and returned one that is
\* followed by another format present in the line
C2_Witness ==
    /\ pc = "done"
    /\ In(self.rsid, line)
    /\ ret.val[1]
    /\ LET fs == allele_match_set(self).val
       IN  \E k, j \in 1..Len(fs) :
               /\ 1 < k /\ k < j
               /\ fs[k] = ret.val[2]
               /\ fs[j] # fs[k]
               /\ In(fs[j], line)
               /\ ~In(fs[1], line)

\* C5: when the identifier is not in the line, detect returns (False, ""),
\* whatever genotype formats the line holds.
C5_IdentifierAbsent ==
    (pc = "done" /\ ~In(self.rsid, line)) => ret = Ok(<<FALSE, "">>)

\* the line lacks the identifier and holds a format of the definition
C5_Witness ==
    /\ pc = "done"
    /\ ~In(self.rsid, line)
    /\ ret = Ok(<<FALSE, "">>)
    /\ LET fs == allele_match_set(self).val
       IN  \E k \in 1..Len(fs) : In(fs[k], line)

\* single-genotype definitions of two different letters: <<genotype, A0, A1>>
OrderedCases == {<<"C;T", "C", "T">>, <<"c;t", "C", "T">>, <<"T;C", "T", "C">>}

\* C10: for a definition "a0;a1" of two different letters, a line that holds
\* the identifier and the alleles in the reverse order only (in one of the
\* four styles), and no format of the definition, is not a match.
C10_OrderSensitive ==
    \A c \in OrderedCases :
        ( /\ pc = "done"
          /\ self.alleles = <<c[1]>>
          /\ In(self.rsid, line)
          /\ \E k \in 1..4 : In(Style(k, c[3], c[2]), line)
          /\ \A k \in 1..4 : ~In(Style(k, c[2], c[3]), line) )
        => ret = Ok(<<FALSE, "">>)

\* the "C;T" definition against the line rs1322784, 1, 999, T, C
C10_Witness ==
    /\ pc = "done"
    /\ self = Rsid("rs1322784", PyStr("C;T"), Trait.autism)
    /\ line = "rs1322784\t1\t999\tT\tC"
    /\ ret = Ok(<<FALSE, "">>)

(***************************************************************************)
(* Properties of scan_genes (Spec).                                        *)
(***************************************************************************)
\* the positions of the catalog whose definition matches its record
Hits ==
    {i \in 1..Len(RSIDS) :
        /\ RSIDS[i].rsid \in DOMAIN rsid_dict
        /\ detect(RSIDS[i], rsid_dict[RSIDS[i].rsid]).val[1]}

\* C1: scan returns the definitions whose identifier is a key of the mapping
\* and whose record matches, in catalog order, each with the format detect
\* returned; definitions whose identifier is no key contribute nothing.
C1_ScanResult ==
    pc = "done" =>
        /\ ret.exc = "None"
        /\ Len(ret.val) = Cardinality(Hits)
        /\ \A i \in Hits :
               LET k == Cardinality({j \in Hits : j <= i})
               IN  ret.val[k] =
                       <<RSIDS[i], detect(RSIDS[i], rsid_dict[RSIDS[i].rsid]).val[2]>>

\* a scan that reported two definitions of different identifiers, skipped a
\* definition whose identifier is no key and rejected one whose record
\* does not match
C1_Witness ==
    /\ pc = "done"
    /\ \E k, j \in 1..Len(ret.val) : ret.val[k][1].rsid # ret.val[j][1].rsid
    /\ \E i \in 1..Len(RSIDS) : RSIDS[i].rsid \notin DOMAIN rsid_dict
    /\ \E i \in 1..Len(RSIDS) : RSIDS[i].rsid \in DOMAIN rsid_dict /\ i \notin Hits

Rs1322784CC == Rsid("rs1322784", PyStr("C;C"), Trait.autism)
Rs1322784CT == Rsid("rs1322784", PyStr("C;T"), Trait.autism)
Rs429358CC == Rsid("rs429358", PyStr("C;C"), Trait.alzheimers)

Reported(d) == \E k \in 1..Len(ret.val) : ret.val[k][1] = d

C6_Scenario ==
    /\ pc = "done"
    /\ RSIDS = <<Rs1322784CC, Rs1322784CT>>
    /\ "rs1322784" \in DOMAIN rsid_dict
    /\ rsid_dict["rs1322784"] = "rs1322784\t1\t999\tC\tT"

\* C6: with the catalog (rs1322784 "C;C"), (rs1322784 "C;T") and the line
\* rs1322784, 1, 999, C, T, scan reports the "C;T" definition and not the
\* "C;C" definition.
C6_OnlyHeterozygous ==
    C6_Scenario => (Reported(Rs1322784CT) /\ ~Reported(Rs1322784CC))

\* the scenario has been scanned
C6_Witness == C6_Scenario /\ ret.val = <<<<Rs1322784CT, "C\tT">>>>

C7_Scenario ==
    /\ pc = "done"
    /\ RSIDS = <<Rs429358CC>>
    /\ "rs429358" \in DOMAIN rsid_dict
    /\ rsid_dict["rs429358"] = "rs429358\t17\t12345\tC\tC"

\* C7 as stated: with the catalog (rs429358 "C;C") and the line rs429358,
\* 17, 12345, C, C, scan yields exactly one match, whose format is "CC".
C7_MatchedCC ==
    C7_Scenario => (Len(ret.val) = 1 /\ ret.val[1] = <<Rs429358CC, "CC">>)

\* C7 amended: in that scenario scan yields exactly one match; the tab-joined
\* line holds none of "(C;C)", "CC" and "C/C", so the engine falls through
\* to the fourth format and the matched format is "C<TAB>C".
C7_MatchedTab ==
    C7_Scenario =>
        /\ Len(ret.val) = 1
        /\ ret.val[1] = <<Rs429358CC, "C\tC">>
        /\ \A f \in {"(C;C)", "CC", "C/C"} : ~In(f, rsid_dict["rs429358"])

\* the scenario has been scanned
C7_Witness == C7_Scenario /\ Len(ret.val) = 1

\* C8: in the shipped catalog no two definitions have the same (identifier,
\* genotype) pair.
C8_CatalogUnique ==
    RSIDS = ShippedRSIDS =>
        \A i, j \in 1..Len(RSIDS) :
            i < j => <<RSIDS[i].rsid, RSIDS[i].alleles>> # <<RSIDS[j].rsid, RSIDS[j].alleles>>

Rs6152AA == Rsid("rs6152", PyStr("A;A"), Trait.hair)
Rs6152AG == Rsid("rs6152", PyStr("A;G"), Trait.hair)
Rs6152A == Rsid("rs6152", PyStr("A;"), Trait.hair)

\* C11: with the shipped catalog, a scan that reports the rs6152 definition
\* "A;A" or the rs6152 definition "A;G" also reports the rs6152 definition
\* with the malformed genotype "A;", whose format set holds the bare "A".
C11_MalformedAlsoReported ==
    (pc = "done" /\ RSIDS = ShippedRSIDS /\ (Reported(Rs6152AA) \/ Reported(Rs6152AG))) =>
        /\ Reported(Rs6152A)
        /\ \E k \in 1..Len(allele_match_set(Rs6152A).val) :
               allele_match_set(Rs6152A).val[k] = "A"

\* one record line has satisfied the "A;G" and the "A;" definitions, the
\* latter by its bare format "A"
C11_Witness ==
    /\ pc = "done"
    /\ RSIDS = ShippedRSIDS
    /\ \E k \in 1..Len(ret.val) : ret.val[k] = <<Rs6152AG, "(A;G)">>
    /\ \E k \in 1..Len(ret.val) : ret.val[k] = <<Rs6152A, "A">>

====
